---- MODULE Spec2Model ----
(***************************************************************************)
(* Aurora Advisory: the consultation-request workflow of                   *)
(* app/routers/requests.py over the tables of app/models.py.               *)
(*                                                                         *)
(* State: the rows of consultation_requests, the rows of                   *)
(* consultation_request_status_logs, the last HTTP response, and (for the  *)
(* interleaved specification) the SQLAlchemy sessions that hold a flushed- *)
(* at-commit unit of work.                                                 *)
(*                                                                         *)
(* Three specifications: Spec runs the calls one at a time, SpecTx splits  *)
(* the call of one session between its read and its commit, and SpecList   *)
(* creates requests from every body of POST /requests and reads the        *)
(* advisor's list with every combination of its query parameters.          *)
(***************************************************************************)
EXTENDS Integers, Sequences, FiniteSets, TLC

\* Largest number of rows of consultation_request_status_logs in the model.
MaxLogs == 2

VARIABLES
    requests,   \* consultation_requests: id -> the row (user_id, goal, ..., status)
    logs,       \* consultation_request_status_logs, in insertion (id) order
    clock,      \* datetime.utcnow as read by the changed_at default
    resp,       \* the HTTP response of the last handler that ran
    tx          \* per session: the unit of work waiting for db.commit()

vars == <<requests, logs, clock, resp, tx>>

----------------------------------------------------------------------------
\* models.py

\* RequestStatusEnum
RequestStatusEnum == {"pending", "in_review", "completed", "cancelled"}

\* The users table: id -> role.  Registration always stores role "client";
\* advisor and admin rows exist in the table from the start.
UserRole == <<"client", "client", "advisor", "admin">>

UserIds == DOMAIN UserRole

Privileged == {u \in UserIds : UserRole[u] = "advisor" \/ UserRole[u] = "admin"}

Clients == {u \in UserIds : UserRole[u] = "client"}

\* The primary keys consultation_requests hands out in the model, which are
\* also the values a path parameter request_id takes.
RequestIds == {1, 2}

\* INTEGER PRIMARY KEY of SQLite without AUTOINCREMENT: max(rowid) + 1.
NextId == IF DOMAIN requests = {} THEN 1
          ELSE (CHOOSE m \in DOMAIN requests : \A k \in DOMAIN requests : k <= m) + 1

\* One row of consultation_request_status_logs.
ConsultationRequestStatusLog(request_id, changed_by_user_id, old_status, new_status) ==
    [id                 |-> Len(logs) + 1,
     request_id         |-> request_id,
     changed_by_user_id |-> changed_by_user_id,
     old_status         |-> old_status,
     new_status         |-> new_status,
     changed_at         |-> clock + 1]

\* The status_logs backref of a request: the audit rows that point at it.
status_logs(request_id) == SelectSeq(logs, LAMBDA l : l.request_id = request_id)

----------------------------------------------------------------------------
\* Strings are sequences of one-character strings, so that str.strip and
\* ILIKE work on them character by character.  An Optional value is None or
\* Some(v).
None == << >>

Some(v) == <<v>>

\* The email column of the users table: id -> email.
UserEmail == << <<"a", "@">>, <<"b", "@">>, <<"c", "@">>, <<"d", "@">> >>

\* str.strip(): leading and trailing whitespace removed.
IsSpace(c) == c = " "

RECURSIVE lstrip(_)
lstrip(s) == IF s # << >> /\ IsSpace(Head(s)) THEN lstrip(Tail(s)) ELSE s

RECURSIVE rstrip(_)
rstrip(s) ==
    IF s # << >> /\ IsSpace(s[Len(s)]) THEN rstrip(SubSeq(s, 1, Len(s) - 1)) ELSE s

strip(s) == rstrip(lstrip(s))

\* lower() of SQL, on the letters the model's strings are written with.
lower(s) ==
    [i \in 1..Len(s) |-> IF s[i] = "A" THEN "a" ELSE IF s[i] = "B" THEN "b" ELSE s[i]]

\* column.ilike("%" + q + "%"): lower(column) LIKE lower(pattern), which is
\* NULL (no match) on a NULL column.  The model's strings hold neither of
\* the LIKE wildcards, so the pattern matches the columns that contain q.
ilike(column, q) ==
    /\ column # None
    /\ \E i \in 1..(Len(column[1]) - Len(q) + 1) :
          SubSeq(lower(column[1]), i, i + Len(q) - 1) = lower(q)

----------------------------------------------------------------------------
\* schemas.py

\* RiskProfile
RiskProfile == {"prudente", "equilibrato", "dinamico"}

\* ConsultationRequestCreate: the body passes validation.  goal is a str
\* with no length constraint, amount has ge=0, monthly_contribution is
\* optional with ge=0, risk_profile is a RiskProfile, time_horizon_years has
\* ge=1 and le=60, notes is an optional str.
ConsultationRequestCreate(payload) ==
    /\ payload.amount >= 0
    /\ payload.monthly_contribution # None => payload.monthly_contribution[1] >= 0
    /\ payload.risk_profile \in RiskProfile
    /\ payload.time_horizon_years >= 1
    /\ payload.time_horizon_years <= 60

----------------------------------------------------------------------------
\* Sessions (get_db): one per HTTP call.  The interleaved specification
\* follows the call of one session statement by statement; the calls of
\* every other session run whole between two of its statements.
Sessions == {"s1"}

Idle == [pc |-> "idle", op |-> "none", caller |-> 0, rid |-> 0,
         old_status |-> "none", new_status |-> "none"]

\* Responses.
NoData == << >>

Response(code, kind, detail, data) ==
    [op |-> "", code |-> code, kind |-> kind, detail |-> detail, data |-> data]

\* The response as it leaves the handler named op.
From(op, r) == [r EXCEPT !.op = op]

\* No call is being answered.
NoResponse == Response(0, "none", "", NoData)

HTTPException(status_code, detail) == Response(status_code, "error", detail, NoData)

\* _to_out: the serialised request (the fields the model keeps).
_to_out(id, req) ==
    [id                   |-> id,
     user_id              |-> req.user_id,
     user_email           |-> UserEmail[req.user_id],
     user_role            |-> UserRole[req.user_id],
     goal                 |-> req.goal,
     amount               |-> req.amount,
     monthly_contribution |-> req.monthly_contribution,
     risk_profile         |-> req.risk_profile,
     time_horizon_years   |-> req.time_horizon_years,
     notes                |-> req.notes,
     status               |-> req.status]

----------------------------------------------------------------------------
Init ==
    /\ requests = << >>
    /\ logs = << >>
    /\ clock = 0
    /\ resp = NoResponse
    /\ tx = [s \in Sessions |-> Idle]

----------------------------------------------------------------------------
\* deps.py

\* Mutant: the route depends on get_current_user instead of require_advisor.
require_authenticated(current_user) == current_user \in UserIds

\* require_advisor: the dependency lets only advisor and admin through.
require_advisor(current_user) == UserRole[current_user] \in {"advisor", "admin"}

----------------------------------------------------------------------------
\* routers/requests.py: the pieces the handlers are made of.

\* Mutant: the owner is read from the request body.
NewRequestFromPayload(current_user, payload) ==
    [user_id              |-> payload.user_id,
     goal                 |-> strip(payload.goal),
     amount               |-> payload.amount,
     monthly_contribution |-> payload.monthly_contribution,
     risk_profile         |-> payload.risk_profile,
     time_horizon_years   |-> payload.time_horizon_years,
     notes                |-> IF payload.notes # None /\ payload.notes[1] # << >>
                              THEN Some(strip(payload.notes[1])) ELSE None,
     status               |-> "pending"]

\* create_request: the row built from the authenticated user and the payload.
\* The payload's body may carry a user_id key; the schema has no such field.
\* goal is stripped; notes is stripped when it is a non-empty string and
\* None otherwise.
NewRequest(current_user, payload) ==
    [user_id              |-> current_user,
     goal                 |-> strip(payload.goal),
     amount               |-> payload.amount,
     monthly_contribution |-> payload.monthly_contribution,
     risk_profile         |-> payload.risk_profile,
     time_horizon_years   |-> payload.time_horizon_years,
     notes                |-> IF payload.notes # None /\ payload.notes[1] # << >>
                              THEN Some(strip(payload.notes[1])) ELSE None,
     status               |-> "pending"]

\* cancel_my_request, delete_my_request: the owner-scoped query
\* filter(id == request_id, user_id == current_user.id).first()
OwnedRequestFound(current_user, request_id) ==
    /\ request_id \in DOMAIN requests
    /\ requests[request_id].user_id = current_user

\* Mutant: only a request in review is protected.
CancelBlockedInReviewOnly(curr_status) == curr_status = "in_review"

\* Mutant: only a completed request is protected.
CancelBlockedCompletedOnly(curr_status) == curr_status = "completed"

\* cancel_my_request: the audit guard on the current status.
CancelBlocked(curr_status) == curr_status \in {"in_review", "completed"}

\* Mutant: the idempotence guard is missing.
CancelIdempotentMissing(curr_status) == FALSE

\* cancel_my_request: the idempotence guard.
CancelIdempotent(curr_status) == curr_status = "cancelled"

\* delete_my_request: the audit guard on the current status.
DeleteBlocked(curr_status) == curr_status \in {"in_review", "completed"}

\* Mutant: the ownership test of the history route is missing.
HistoryAllowedAny(current_user, req) == TRUE

\* get_request_history: who may read the history of a request.
HistoryAllowed(current_user, req) ==
    \/ UserRole[current_user] \in {"advisor", "admin"}
    \/ req.user_id = current_user

\* Mutant: the rows come back in insertion order.
OrderByInsertion(rows) == rows

\* order_by(changed_at.desc()): selection sort on changed_at, newest first.
RECURSIVE OrderByChangedAtDesc(_)
OrderByChangedAtDesc(rows) ==
    IF rows = << >> THEN << >>
    ELSE LET i == CHOOSE k \in 1..Len(rows) :
                    \A j \in 1..Len(rows) :
                        \/ rows[j].changed_at < rows[k].changed_at
                        \/ rows[j].changed_at = rows[k].changed_at /\ k <= j
             rest == [j \in 1..(Len(rows) - 1) |-> IF j < i THEN rows[j] ELSE rows[j + 1]]
         IN  <<rows[i]>> \o OrderByChangedAtDesc(rest)

\* order_by(created_at.desc()) over the request rows: the table hands out
\* growing ids, so among existing rows a later created_at is a larger id.
RECURSIVE OrderByCreatedAtDesc(_)
OrderByCreatedAtDesc(ids) ==
    IF ids = {} THEN << >>
    ELSE LET m == CHOOSE k \in ids : \A j \in ids : j <= k
         IN  <<_to_out(m, requests[m])>> \o OrderByCreatedAtDesc(ids \ {m})

----------------------------------------------------------------------------
\* The unit of work of cancel_my_request and update_request_status, and its
\* flush at db.commit().

UnitOfWork(op, caller, rid, old_status, new_status) ==
    [pc |-> "staged", op |-> op, caller |-> caller, rid |-> rid,
     old_status |-> old_status, new_status |-> new_status]

\* The ORM emits UPDATE consultation_requests SET status = ... WHERE id = ...
\* only for an attribute whose value differs from the loaded one.
NetChange(uow) == uow.new_status # uow.old_status

\* Mutant: the UPDATE has no WHERE clause and sets the status of every row.
FlushStatusEveryRow(uow) ==
    IF NetChange(uow)
    THEN [k \in DOMAIN requests |-> [requests[k] EXCEPT !.status = uow.new_status]]
    ELSE requests

\* Mutant: the status assignment is lost and only the audit row is written.
FlushStatusLost(uow) == requests

\* The rows of consultation_requests after the flush of the status write.
FlushStatus(uow) ==
    IF NetChange(uow) /\ uow.rid \in DOMAIN requests
    THEN [requests EXCEPT ![uow.rid].status = uow.new_status]
    ELSE requests

\* Mutant: the audit row records the new status as its old_status too.
FlushLogNewAsOld(uow) ==
    Append(logs, ConsultationRequestStatusLog(uow.rid, uow.caller,
                                               uow.new_status, uow.new_status))

\* The rows of the audit table after the flush of the inserted log row.
FlushLog(uow) ==
    Append(logs, ConsultationRequestStatusLog(uow.rid, uow.caller,
                                               uow.old_status, uow.new_status))

\* db.commit() of the unit of work: both writes in one transaction.
Commit(uow) ==
    /\ requests' = FlushStatus(uow)
    /\ logs' = FlushLog(uow)
    /\ clock' = clock + 1

\* A handler that returns or raises without writing.
Reply(op, r) ==
    /\ resp' = From(op, r)
    /\ UNCHANGED <<requests, logs, clock, tx>>

----------------------------------------------------------------------------
\* The handlers, each run from its query to its response in one step.

\* POST /requests
\* A body that fails the validation of its schema is answered 422 before
\* the handler runs.
create_request(current_user, payload) ==
    IF ~ConsultationRequestCreate(payload)
    THEN Reply("create_request", HTTPException(422, "Unprocessable Entity"))
    ELSE /\ NextId \in RequestIds
         /\ requests' = requests @@ (NextId :> NewRequest(current_user, payload))
         /\ resp' = From("create_request",
                          Response(201, "request", "",
                                   <<_to_out(NextId, NewRequest(current_user, payload))>>))
         /\ UNCHANGED <<logs, clock, tx>>

\* GET /requests/me
list_my_requests(current_user) ==
    Reply("list_my_requests",
          Response(200, "list", "",
                   OrderByCreatedAtDesc({r \in DOMAIN requests :
                                            requests[r].user_id = current_user})))

\* GET /requests/me/{request_id}
get_my_request(current_user, request_id) ==
    IF request_id \notin DOMAIN requests
    THEN Reply("get_my_request", HTTPException(404, "Richiesta non trovata."))
    ELSE IF requests[request_id].user_id # current_user
    THEN Reply("get_my_request", HTTPException(403, "Non autorizzato."))
    ELSE Reply("get_my_request",
               Response(200, "request", "", <<_to_out(request_id, requests[request_id])>>))

\* cancel_my_request up to the point where it starts writing: the response
\* it ends with, or kind "proceed" with the status it read.
CancelRead(current_user, request_id) ==
    IF ~OwnedRequestFound(current_user, request_id)
    THEN HTTPException(404, "Richiesta non trovata.")
    ELSE IF CancelBlocked(requests[request_id].status)
    THEN HTTPException(400, "Non puoi cancellare una richiesta gia in lavorazione o completata")
    ELSE IF CancelIdempotent(requests[request_id].status)
    THEN Response(200, "cancel", "", <<[old_status |-> "cancelled", new_status |-> "cancelled"]>>)
    ELSE Response(0, "proceed", requests[request_id].status, NoData)

\* The response of cancel_my_request after its commit.
CancelDone(old_status) ==
    Response(200, "cancel", "", <<[old_status |-> old_status, new_status |-> "cancelled"]>>)

\* PATCH /requests/me/{request_id}
cancel_my_request(current_user, request_id) ==
    LET r == CancelRead(current_user, request_id) IN
    IF r.kind # "proceed" THEN Reply("cancel_my_request", r)
    ELSE /\ Len(logs) < MaxLogs
         /\ Commit(UnitOfWork("cancel", current_user, request_id, r.detail, "cancelled"))
         /\ resp' = From("cancel_my_request", CancelDone(r.detail))
         /\ UNCHANGED tx

\* Mutant: the relationship is passive and the audit rows are left as they
\* are.
KeptLogs(request_id) == logs

\* db.delete(req): the status_logs backref has no delete cascade, so the
\* flush blanks the foreign key of every audit row of the request (0 stands
\* for NULL here).
BlankedLogs(request_id) ==
    [i \in 1..Len(logs) |->
        IF logs[i].request_id = request_id
        THEN [logs[i] EXCEPT !.request_id = 0]
        ELSE logs[i]]

\* Mutant: request_id is a nullable column.
NotNullUnchecked(rows) == FALSE

\* request_id is nullable=False: the UPDATE that blanks it raises
\* IntegrityError, the commit fails and the session is rolled back on close.
NotNullViolated(rows) == \E i \in 1..Len(rows) : rows[i].request_id = 0

\* DELETE /requests/me/{request_id}
delete_my_request(current_user, request_id) ==
    IF ~OwnedRequestFound(current_user, request_id)
    THEN Reply("delete_my_request", HTTPException(404, "Richiesta non trovata"))
    ELSE IF DeleteBlocked(requests[request_id].status)
    THEN Reply("delete_my_request",
               HTTPException(400, "Non puoi eliminare una richiesta gia in lavorazione o completata"))
    ELSE IF NotNullViolated(BlankedLogs(request_id))
    THEN Reply("delete_my_request", HTTPException(500, "Internal Server Error"))
    ELSE /\ requests' = [k \in DOMAIN requests \ {request_id} |-> requests[k]]
         /\ logs' = BlankedLogs(request_id)
         /\ resp' = From("delete_my_request", Response(204, "empty", "", NoData))
         /\ UNCHANGED <<clock, tx>>

\* Query(default=...): the value of a query parameter that may be absent.
Query(default, value) == IF value = None THEN default ELSE value[1]

\* The default and the largest value of the limit parameter.
LimitDefault == 25

LimitMax == 200

\* skip has ge=0, limit has ge=1 and le=200.
ListParamsValid(skip, limit) ==
    /\ Query(0, skip) >= 0
    /\ Query(LimitDefault, limit) >= 1
    /\ Query(LimitDefault, limit) <= LimitMax

\* The query list_all_requests ends up with, as the ids of the rows it
\* selects.  With a q that is not blank the query is built again from
\* db.query(ConsultationRequest), joined with the owner, and carries the
\* search condition alone; otherwise it carries the status filter, if any.
ListQuery(status, q) ==
    IF q # None /\ strip(q[1]) # << >>
    THEN {r \in DOMAIN requests :
             \/ ilike(Some(requests[r].goal), strip(q[1]))
             \/ ilike(requests[r].notes, strip(q[1]))
             \/ ilike(Some(UserEmail[requests[r].user_id]), strip(q[1]))}
    ELSE IF status # None
    THEN {r \in DOMAIN requests : requests[r].status = status[1]}
    ELSE DOMAIN requests

\* .offset(skip).limit(limit) over the ordered rows.
Page(rows, skip, limit) ==
    SubSeq(rows, skip + 1, IF skip + limit < Len(rows) THEN skip + limit ELSE Len(rows))

\* AdminRequestListOut
AdminRequestListOut(items, total) == [items |-> items, total |-> total]

\* What list_all_requests answers: total is the count of the query, items
\* is the page of its rows in created_at-descending order.
ListRead(current_user, status, q, skip, limit) ==
    IF ~require_advisor(current_user)
    THEN HTTPException(403, "Non autorizzato.")
    ELSE IF ~ListParamsValid(skip, limit)
    THEN HTTPException(422, "Unprocessable Entity")
    ELSE Response(200, "list", "",
                  <<AdminRequestListOut(
                      Page(OrderByCreatedAtDesc(ListQuery(status, q)),
                           Query(0, skip), Query(LimitDefault, limit)),
                      Cardinality(ListQuery(status, q)))>>)

\* GET /requests
list_all_requests(current_user, status, q, skip, limit) ==
    Reply("list_all_requests", ListRead(current_user, status, q, skip, limit))

\* Mutant: the advisor path enforces a transition graph and refuses to
\* leave completed or cancelled.
UpdateReadStrict(current_user, request_id) ==
    IF ~require_advisor(current_user)
    THEN HTTPException(403, "Non autorizzato.")
    ELSE IF request_id \notin DOMAIN requests
    THEN HTTPException(404, "Richiesta non trovata.")
    ELSE IF requests[request_id].status \in {"completed", "cancelled"}
    THEN HTTPException(400, "Transizione non valida")
    ELSE Response(0, "proceed", requests[request_id].status, NoData)

\* update_request_status up to the point where it starts writing.
UpdateRead(current_user, request_id) ==
    IF ~require_advisor(current_user)
    THEN HTTPException(403, "Non autorizzato.")
    ELSE IF request_id \notin DOMAIN requests
    THEN HTTPException(404, "Richiesta non trovata.")
    ELSE Response(0, "proceed", requests[request_id].status, NoData)

\* PATCH /requests/{request_id}
update_request_status(current_user, request_id, status) ==
    LET r == UpdateRead(current_user, request_id) IN
    IF r.kind # "proceed" THEN Reply("update_request_status", r)
    ELSE /\ Len(logs) < MaxLogs
         /\ Commit(UnitOfWork("update", current_user, request_id, r.detail, status))
         /\ resp' = From("update_request_status",
                          Response(200, "request", "",
                                   <<_to_out(request_id, requests'[request_id])>>))
         /\ UNCHANGED tx

\* GET /requests/{request_id}/history
get_request_history(current_user, request_id) ==
    IF request_id \notin DOMAIN requests
    THEN Reply("get_request_history", HTTPException(404, "Richiesta non trovata"))
    ELSE IF ~HistoryAllowed(current_user, requests[request_id])
    THEN Reply("get_request_history", HTTPException(403, "Non autorizzato"))
    ELSE Reply("get_request_history",
               Response(200, "logs", "", OrderByChangedAtDesc(status_logs(request_id))))

----------------------------------------------------------------------------
\* A body every field of which is in range.
ValidBody ==
    [goal                 |-> <<"A", "b">>,
     amount               |-> 1,
     monthly_contribution |-> None,
     risk_profile         |-> "equilibrato",
     time_horizon_years   |-> 10,
     notes                |-> None]

\* The bodies of POST /requests: the valid one, and the ones that differ
\* from it in one field.
Bodies ==
    {ValidBody}
    \cup {[ValidBody EXCEPT !.goal = g] : g \in {<< >>, <<" ">>, <<" ", "b", " ">>}}
    \cup {[ValidBody EXCEPT !.amount = a] : a \in {-1, 0}}
    \cup {[ValidBody EXCEPT !.monthly_contribution = Some(m)] : m \in {-1, 0}}
    \cup {[ValidBody EXCEPT !.risk_profile = p] : p \in {"prudente", "aggressivo"}}
    \cup {[ValidBody EXCEPT !.time_horizon_years = y] : y \in {0, 1, 60, 61}}
    \cup {[ValidBody EXCEPT !.notes = Some(n)] : n \in {<< >>, <<" ">>, <<" ", "a">>}}

\* A body with one more key, user_id, which the schema does not declare.
WithUserId(body, user_id) == body @@ [user_id |-> user_id]

\* The create payloads of the workflow runs: the valid body, which may name
\* any user_id.
Payloads == {WithUserId(ValidBody, u) : u \in UserIds}

\* The create payloads of the listing runs: every body, naming the caller.
ListPayloads(current_user) == {WithUserId(b, current_user) : b \in Bodies}

\* get_db: the session of a call is closed once its response is out; the
\* next call of a one-at-a-time run starts after that.
get_db_close ==
    /\ resp # NoResponse
    /\ resp' = NoResponse
    /\ UNCHANGED <<requests, logs, clock, tx>>

\* No call is being answered: the next one may start.
Ready == resp = NoResponse

Next ==
    \/ Ready /\ \E u \in UserIds, p \in Payloads : create_request(u, p)
    \/ Ready /\ \E u \in UserIds : list_my_requests(u)
    \/ Ready /\ \E u \in UserIds, r \in RequestIds : get_my_request(u, r)
    \/ Ready /\ \E u \in UserIds, r \in RequestIds : cancel_my_request(u, r)
    \/ Ready /\ \E u \in UserIds, r \in RequestIds : delete_my_request(u, r)
    \/ Ready /\ \E u \in UserIds : list_all_requests(u, None, None, None, None)
    \/ Ready /\ \E u \in UserIds, r \in RequestIds, t \in RequestStatusEnum :
                    update_request_status(u, r, t)
    \/ Ready /\ \E u \in UserIds, r \in RequestIds : get_request_history(u, r)
    \/ get_db_close

Spec == Init /\ [][Next]_vars

----------------------------------------------------------------------------
\* Interleaved runs (SpecTx): the call of a session is split at the point
\* where the handler has read the row and has not yet committed.

\* cancel_my_request from its query to the db.add calls: it answers at once,
\* or leaves a unit of work for db.commit().
cancel_begin(s, current_user, request_id) ==
    /\ tx[s].pc = "idle"
    /\ LET r == CancelRead(current_user, request_id) IN
       IF r.kind # "proceed" THEN Reply("cancel_my_request", r)
       ELSE /\ tx' = [tx EXCEPT ![s] =
                        UnitOfWork("cancel", current_user, request_id, r.detail, "cancelled")]
            /\ UNCHANGED <<requests, logs, clock, resp>>

\* update_request_status from its query to the db.add calls.
update_begin(s, current_user, request_id, status) ==
    /\ tx[s].pc = "idle"
    /\ LET r == UpdateRead(current_user, request_id) IN
       IF r.kind # "proceed" THEN Reply("update_request_status", r)
       ELSE /\ tx' = [tx EXCEPT ![s] =
                        UnitOfWork("update", current_user, request_id, r.detail, status)]
            /\ UNCHANGED <<requests, logs, clock, resp>>

\* The handler that owns a unit of work.
HandlerOf(uow) == IF uow.op = "cancel" THEN "cancel_my_request" ELSE "update_request_status"

\* The flush finds no row for its UPDATE ... WHERE id = rid: StaleDataError.
StaleData(uow) == NetChange(uow) /\ uow.rid \notin DOMAIN requests

\* What the handler returns after a commit that went through: cancel returns
\* the statuses it holds, update serialises the row db.refresh(req) reads
\* back, and the refresh of a row that is gone raises.
AfterCommit(uow, rows) ==
    IF uow.op = "cancel" THEN CancelDone(uow.old_status)
    ELSE IF uow.rid \in DOMAIN rows
    THEN Response(200, "request", "", <<_to_out(uow.rid, rows[uow.rid])>>)
    ELSE HTTPException(500, "Internal Server Error")

\* db.commit() of the session's unit of work, and the rest of the handler.
\* The commit goes through, or raises (stale row, locked or failing
\* database) and the session is rolled back when get_db closes it.
db_commit(s) ==
    /\ tx[s].pc = "staged"
    /\ tx' = [tx EXCEPT ![s] = Idle]
    /\ \/ /\ ~StaleData(tx[s])
          /\ Len(logs) < MaxLogs
          /\ Commit(tx[s])
          /\ resp' = From(HandlerOf(tx[s]), AfterCommit(tx[s], requests'))
       \/ /\ resp' = From(HandlerOf(tx[s]), HTTPException(500, "Internal Server Error"))
          /\ UNCHANGED <<requests, logs, clock>>

\* The interleaved runs work on one request row at a time.
OneRow == DOMAIN requests = {}

NextTx ==
    \/ Ready /\ OneRow /\ \E u \in UserIds, p \in Payloads : create_request(u, p)
    \/ Ready /\ \E u \in UserIds, r \in RequestIds : cancel_my_request(u, r)
    \/ Ready /\ \E u \in UserIds, r \in RequestIds : delete_my_request(u, r)
    \/ Ready /\ \E u \in UserIds, r \in RequestIds, t \in RequestStatusEnum :
                    update_request_status(u, r, t)
    \/ Ready /\ \E s \in Sessions, u \in UserIds, r \in RequestIds : cancel_begin(s, u, r)
    \/ Ready /\ \E s \in Sessions, u \in UserIds, r \in RequestIds, t \in RequestStatusEnum :
                    update_begin(s, u, r, t)
    \/ Ready /\ \E s \in Sessions : db_commit(s)
    \/ get_db_close

SpecTx == Init /\ [][NextTx]_vars

----------------------------------------------------------------------------
\* Listing runs (SpecList): clients create requests from every body, an
\* advisor completes some of them, and advisors and admins read the list
\* with every combination of its query parameters.

\* The values of the query parameters of GET /requests.
ListStatuses == {None} \cup {Some(t) : t \in RequestStatusEnum}

ListSearches == {None, Some(<<" ">>), Some(<<"a">>), Some(<<" ", "B">>)}

ListSkips == {None, Some(-1), Some(1), Some(2)}

ListLimits == {None, Some(0), Some(1), Some(200), Some(201)}

\* The advisor of the listing runs.
Advisor == CHOOSE u \in UserIds : UserRole[u] = "advisor"

NextList ==
    \/ Ready /\ \E u \in Clients : \E p \in ListPayloads(u) : create_request(u, p)
    \/ Ready /\ \E r \in RequestIds : update_request_status(Advisor, r, "completed")
    \/ Ready /\ \E u \in Privileged, status \in ListStatuses, q \in ListSearches,
                    skip \in ListSkips, limit \in ListLimits :
                    list_all_requests(u, status, q, skip, limit)
    \/ get_db_close

SpecList == Init /\ [][NextList]_vars

----------------------------------------------------------------------------
\* Properties of the one-at-a-time runs (Spec).

\* The audit rows of a request in the rows given, oldest first.
LogsOf(rows, request_id) == SelectSeq(rows, LAMBDA l : l.request_id = request_id)

\* The most recent audit row of a request (the greatest changed_at).
MostRecentLog(request_id) == OrderByChangedAtDesc(status_logs(request_id))[1]

\* rows2 is rows1 with exactly the one row given appended.
AppendsExactly(rows1, rows2, request_id, by, old_status, new_status) ==
    /\ Len(rows2) = Len(rows1) + 1
    /\ SubSeq(rows2, 1, Len(rows1)) = rows1
    /\ rows2[Len(rows2)].request_id = request_id
    /\ rows2[Len(rows2)].changed_by_user_id = by
    /\ rows2[Len(rows2)].old_status = old_status
    /\ rows2[Len(rows2)].new_status = new_status

\* C1: for every existing request, the new_status of its most recent audit
\* row is its current status, and a request without audit rows is pending.
C1_StatusMatchesLatestLog ==
    \A r \in DOMAIN requests :
        IF status_logs(r) = << >>
        THEN requests[r].status = "pending"
        ELSE MostRecentLog(r).new_status = requests[r].status

\* A request with two audit rows whose status is no longer pending.
C1_Witness ==
    \E r \in DOMAIN requests :
        /\ Len(status_logs(r)) >= 2
        /\ requests[r].status # "pending"
        /\ resp.op \in {"cancel_my_request", "update_request_status"}
        /\ resp.code = 200

\* C2: update_request_status called by an advisor or admin on an existing
\* request with status s and requested status t answers 200, sets the status
\* to t and appends exactly one audit row (s, t, caller), for every pair (s, t).
C2_AdvisorSetStatusWritesOneRow ==
    [][resp'.op = "update_request_status" =>
          \A u \in Privileged, r \in DOMAIN requests, t \in RequestStatusEnum :
              update_request_status(u, r, t) =>
                  /\ resp'.code = 200
                  /\ requests'[r].status = t
                  /\ AppendsExactly(logs, logs', r, u, requests[r].status, t)]_vars

\* An admin has set a completed request to completed again, and the same-to-
\* same row is in the audit table.
C2_Witness ==
    /\ resp.op = "update_request_status"
    /\ resp.code = 200
    /\ logs # << >>
    /\ logs[Len(logs)].old_status = "completed"
    /\ logs[Len(logs)].new_status = "completed"
    /\ UserRole[logs[Len(logs)].changed_by_user_id] = "admin"

\* C3: cancel by the owner of a pending request sets it to cancelled and
\* writes exactly one row (pending, cancelled, owner); cancel by the owner
\* of a cancelled request answers {cancelled, cancelled}, leaves the status
\* cancelled and writes no row.
C3_CancelIdempotent ==
    [][resp'.op = "cancel_my_request" =>
          \A r \in DOMAIN requests :
          LET u == requests[r].user_id IN
          cancel_my_request(u, r) =>
              /\ requests[r].status = "pending" =>
                    /\ requests'[r].status = "cancelled"
                    /\ AppendsExactly(logs, logs', r, u, "pending", "cancelled")
                    /\ resp'.code = 200
                    /\ resp'.data = <<[old_status |-> "pending", new_status |-> "cancelled"]>>
              /\ requests[r].status = "cancelled" =>
                    /\ resp'.code = 200
                    /\ resp'.data = <<[old_status |-> "cancelled", new_status |-> "cancelled"]>>
                    /\ requests' = requests
                    /\ logs' = logs]_vars

\* The second cancel has answered {cancelled, cancelled} and the request has
\* the single row of the first one.
C3_Witness ==
    /\ resp.op = "cancel_my_request"
    /\ resp.data = <<[old_status |-> "cancelled", new_status |-> "cancelled"]>>
    /\ \E r \in DOMAIN requests :
          /\ requests[r].status = "cancelled"
          /\ Len(status_logs(r)) = 1
          /\ status_logs(r)[1].old_status = "pending"
          /\ status_logs(r)[1].new_status = "cancelled"
          /\ status_logs(r)[1].changed_by_user_id = requests[r].user_id

\* C4: cancel by the owner of a request that is in_review or completed
\* answers 400 and leaves the requests and the audit rows as they were.
C4_CancelRefusedOnceWorked ==
    [][resp'.op = "cancel_my_request" =>
          \A r \in DOMAIN requests :
          LET u == requests[r].user_id IN
          (/\ requests[r].status \in {"in_review", "completed"}
           /\ cancel_my_request(u, r)) =>
              /\ resp'.code = 400
              /\ requests' = requests
              /\ logs' = logs]_vars

\* A cancel has been refused with 400 while a request is in_review.
C4_Witness ==
    /\ resp.op = "cancel_my_request"
    /\ resp.code = 400
    /\ \E r \in DOMAIN requests : requests[r].status = "in_review"

\* C5 as claimed: delete by the owner answers 400 and keeps the request when
\* it is in_review or completed, and answers 204 and removes the request
\* when it is pending or cancelled, whether or not audit rows exist for it.
C5_DeleteByStatus ==
    [][resp'.op = "delete_my_request" =>
          \A r \in DOMAIN requests :
          LET u == requests[r].user_id IN
          delete_my_request(u, r) =>
              /\ requests[r].status \in {"in_review", "completed"} =>
                    /\ resp'.code = 400
                    /\ requests' = requests
              /\ requests[r].status \in {"pending", "cancelled"} =>
                    /\ resp'.code = 204
                    /\ r \notin DOMAIN requests']_vars

\* C6: create answers 201 with a new request owned by the caller, whatever
\* user_id the body names, in status pending and with no audit row.
C6_CreatePendingNoLog ==
    [][resp'.op = "create_request" =>
          \A u \in UserIds, p \in Payloads :
          create_request(u, p) =>
              /\ NextId \notin DOMAIN requests
              /\ DOMAIN requests' = DOMAIN requests \cup {NextId}
              /\ requests'[NextId].user_id = u
              /\ requests'[NextId].status = "pending"
              /\ LogsOf(logs', NextId) = << >>
              /\ resp'.code = 201
              /\ resp'.data[1].id = NextId
              /\ resp'.data[1].user_id = u]_vars

\* A request has just been created while the audit table already has rows,
\* all of the other request.
C6_Witness ==
    /\ resp.op = "create_request"
    /\ resp.code = 201
    /\ resp.data[1].id = 2
    /\ requests[2].status = "pending"
    /\ status_logs(1) # << >>
    /\ status_logs(2) = << >>

\* C7: no step removes or changes an audit row: the rows of before are a
\* prefix of the rows of after.
C7_AuditAppendOnly ==
    [][/\ Len(logs') >= Len(logs)
       /\ SubSeq(logs', 1, Len(logs)) = logs]_vars

\* A delete of a cancelled request that has its audit row has been attempted
\* (and answered 500): the request and the row are still there.
C7_Witness ==
    /\ resp.op = "delete_my_request"
    /\ resp.code = 500
    /\ \E r \in DOMAIN requests :
          /\ requests[r].status = "cancelled"
          /\ status_logs(r) # << >>
          /\ status_logs(r)[1].request_id = r

\* C9: update_request_status and list_all_requests called by a user whose
\* role is neither advisor nor admin answer 403, and the refused update
\* leaves the requests and the audit rows as they were.
C9_NonAdvisorForbidden ==
    [][\A u \in UserIds \ Privileged :
          /\ resp'.op = "list_all_requests" =>
                (list_all_requests(u, None, None, None, None) =>
                    resp'.code = 403 /\ resp'.data = NoData)
          /\ resp'.op = "update_request_status" =>
                \A r \in RequestIds, t \in RequestStatusEnum :
                    update_request_status(u, r, t) =>
                        /\ resp'.code = 403
                        /\ requests' = requests
                        /\ logs' = logs]_vars

\* An update has been refused with 403 while every existing request is
\* pending and owned by a client.
C9_Witness ==
    /\ resp.op = "update_request_status"
    /\ resp.code = 403
    /\ DOMAIN requests # {}
    /\ \A r \in DOMAIN requests :
          requests[r].status = "pending" /\ UserRole[requests[r].user_id] = "client"

\* C10: get, cancel, delete and history called by a client on an existing
\* request of another user answer 403 or 404 without data, and cancel and
\* delete leave the requests and the audit rows as they were.
C10_OtherUsersRequestHidden ==
    [][\A c \in Clients, r \in DOMAIN requests :
          requests[r].user_id # c =>
              /\ (resp'.op = "get_my_request" /\ get_my_request(c, r)) =>
                    resp'.code \in {403, 404} /\ resp'.data = NoData
              /\ (resp'.op = "get_request_history" /\ get_request_history(c, r)) =>
                    resp'.code \in {403, 404} /\ resp'.data = NoData
              /\ (resp'.op = "cancel_my_request" /\ cancel_my_request(c, r)) =>
                    /\ resp'.code \in {403, 404}
                    /\ resp'.data = NoData
                    /\ requests' = requests
                    /\ logs' = logs
              /\ (resp'.op = "delete_my_request" /\ delete_my_request(c, r)) =>
                    /\ resp'.code \in {403, 404}
                    /\ resp'.data = NoData
                    /\ requests' = requests
                    /\ logs' = logs]_vars

\* A history call has been refused with 403 while the only request, which
\* has audit rows, is owned by a client.
C10_Witness ==
    /\ resp.op = "get_request_history"
    /\ resp.code = 403
    /\ \E r \in DOMAIN requests :
          /\ DOMAIN requests = {r}
          /\ UserRole[requests[r].user_id] = "client"
          /\ status_logs(r) # << >>

\* C11 as claimed: for a client, a get, cancel, delete or history call on a
\* request of another user is answered exactly as the same call on an id
\* that no request has: the step is also a step of the call on a missing id.
C11_MissingAndForeignAlike ==
    [][\A c \in Clients, r \in DOMAIN requests, m \in RequestIds \ DOMAIN requests :
          requests[r].user_id # c =>
              /\ (resp'.op = "get_my_request" /\ get_my_request(c, r)) =>
                    get_my_request(c, m)
              /\ (resp'.op = "cancel_my_request" /\ cancel_my_request(c, r)) =>
                    cancel_my_request(c, m)
              /\ (resp'.op = "delete_my_request" /\ delete_my_request(c, r)) =>
                    delete_my_request(c, m)
              /\ (resp'.op = "get_request_history" /\ get_request_history(c, r)) =>
                    get_request_history(c, m)]_vars

\* C15: get_request_history called on an existing request by its owner or
\* by an advisor or admin answers 200 with exactly the audit rows whose
\* request_id is that request, each once, and changed_at never increases
\* from one row of the answer to the next.
C15_HistoryExactAndNewestFirst ==
    [][resp'.op = "get_request_history" =>
          \A r \in DOMAIN requests : \A u \in Privileged \cup {requests[r].user_id} :
              get_request_history(u, r) =>
                  /\ resp'.code = 200
                  /\ Len(resp'.data) = Len(LogsOf(logs, r))
                  /\ {resp'.data[i] : i \in 1..Len(resp'.data)}
                        = {logs[i] : i \in {k \in 1..Len(logs) : logs[k].request_id = r}}
                  /\ \A i \in 1..(Len(resp'.data) - 1) :
                        resp'.data[i].changed_at >= resp'.data[i + 1].changed_at]_vars

\* The history of a request that has two audit rows has been read, and the
\* newer row comes first.
C15_Witness ==
    /\ resp.op = "get_request_history"
    /\ resp.code = 200
    /\ Len(resp.data) = 2
    /\ resp.data[1].changed_at > resp.data[2].changed_at
    /\ \E r \in DOMAIN requests : Len(status_logs(r)) = 2

\* A step of one of the operations a client invokes: create, listMine, get,
\* cancel, delete or history, called by a user whose role is client.
ClientStep ==
    \E c \in Clients :
        \/ \E p \in Payloads : create_request(c, p)
        \/ list_my_requests(c)
        \/ \E r \in RequestIds :
              \/ get_my_request(c, r)
              \/ cancel_my_request(c, r)
              \/ delete_my_request(c, r)
              \/ get_request_history(c, r)

\* C16: no step of an operation invoked by a client turns the status of a
\* completed or cancelled request into another status.
C16_TerminalForClients ==
    [][\A r \in DOMAIN requests :
          (/\ requests[r].status \in {"completed", "cancelled"}
           /\ r \in DOMAIN requests'
           /\ requests'[r].status # requests[r].status) => ~ClientStep]_vars

\* The owner, a client, has tried to cancel a completed request: the call
\* is answered 400 and the request is still completed.
C16_Witness ==
    /\ resp.op = "cancel_my_request"
    /\ resp.code = 400
    /\ \E r \in DOMAIN requests :
          /\ requests[r].status = "completed"
          /\ UserRole[requests[r].user_id] = "client"

\* C17: a step of cancel, update or delete on a request that writes leaves
\* every other request as it was (it exists before exactly if it exists after, with the
\* same owner and status) and leaves the audit rows of every other request
\* as they were; and no step changes the user_id of a request that stays.
C17_OnlyOneRequestTouched ==
    [][/\ (requests' # requests \/ logs' # logs) =>
             \A u \in UserIds, r \in RequestIds :
                 (\/ resp'.op = "cancel_my_request" /\ cancel_my_request(u, r)
                  \/ resp'.op = "delete_my_request" /\ delete_my_request(u, r)
                  \/ /\ resp'.op = "update_request_status"
                     /\ \E t \in RequestStatusEnum : update_request_status(u, r, t)) =>
                     \A o \in RequestIds \ {r} :
                         /\ o \in DOMAIN requests <=> o \in DOMAIN requests'
                         /\ o \in DOMAIN requests =>
                               /\ requests'[o].user_id = requests[o].user_id
                               /\ requests'[o].status = requests[o].status
                         /\ LogsOf(logs', o) = LogsOf(logs, o)
       /\ \A r \in DOMAIN requests \cap DOMAIN requests' :
             requests'[r].user_id = requests[r].user_id]_vars

\* An advisor has set the status of request 2 while request 1, of another
\* owner, is cancelled and has its own audit row.
C17_Witness ==
    /\ resp.op = "update_request_status"
    /\ resp.code = 200
    /\ resp.data[1].id = 2
    /\ DOMAIN requests = {1, 2}
    /\ requests[1].status = "cancelled"
    /\ requests[1].user_id # requests[2].user_id
    /\ Len(status_logs(1)) = 1
    /\ Len(status_logs(2)) = 1

\* C19: the audit rows of every request form a chain: the oldest one has
\* old_status pending, each later one has as old_status the new_status of
\* the one before it; and every row a step of cancel_my_request writes is
\* (pending, cancelled).
C19_AuditChain ==
    /\ [](\A r \in DOMAIN requests :
             LET rows == status_logs(r) IN
             /\ rows # << >> => rows[1].old_status = "pending"
             /\ \A i \in 1..(Len(rows) - 1) : rows[i + 1].old_status = rows[i].new_status)
    /\ [][(resp'.op = "cancel_my_request" /\ logs' # logs) =>
             /\ logs'[Len(logs')].old_status = "pending"
             /\ logs'[Len(logs')].new_status = "cancelled"]_vars

\* A request has a chain of two rows, the second of which is the owner's
\* cancel after an advisor has put the request back to pending.
C19_Witness ==
    \E r \in DOMAIN requests :
        /\ Len(status_logs(r)) = 2
        /\ UserRole[status_logs(r)[1].changed_by_user_id] = "advisor"
        /\ status_logs(r)[1].new_status = "pending"
        /\ status_logs(r)[2].changed_by_user_id = requests[r].user_id
        /\ UserRole[requests[r].user_id] = "client"
        /\ resp.op = "cancel_my_request"
        /\ resp.code = 200

\* C20: the request_id of every audit row is not NULL and is the id of an
\* existing request, and its changed_by_user_id is the id of a user.
C20_AuditRowsReferToRows ==
    \A i \in 1..Len(logs) :
        /\ logs[i].request_id # 0
        /\ logs[i].request_id \in DOMAIN requests
        /\ logs[i].changed_by_user_id \in UserIds

\* A request without audit rows has just been deleted while the other
\* request has audit rows.
C20_Witness ==
    /\ resp.op = "delete_my_request"
    /\ resp.code = 204
    /\ logs # << >>
    /\ \E r \in DOMAIN requests : Len(status_logs(r)) = Len(logs)

----------------------------------------------------------------------------
\* Properties of the listing runs (SpecList).

\* The bodies the create operation is to reject: amount <= 0, a
\* time_horizon_years outside 1..60, a risk_profile that is not one of the
\* three, or a goal that is empty once stripped.
OutOfRange(payload) ==
    \/ payload.amount <= 0
    \/ payload.time_horizon_years < 1
    \/ payload.time_horizon_years > 60
    \/ payload.risk_profile \notin {"prudente", "equilibrato", "dinamico"}
    \/ strip(payload.goal) = << >>

\* C12 as claimed: create answers an out-of-range body with an error and
\* inserts no row, and every stored request has amount > 0 and a goal that
\* is not empty.
C12_CreateRejectsOutOfRange ==
    /\ [][resp'.op = "create_request" =>
             \A u \in Clients : \A p \in ListPayloads(u) :
                 (OutOfRange(p) /\ create_request(u, p)) =>
                     /\ resp'.code >= 400
                     /\ requests' = requests]_vars
    /\ [](\A r \in DOMAIN requests :
             requests[r].amount > 0 /\ requests[r].goal # << >>)

\* The requests a listing with the given filters is to return: the status
\* filter, when given, and the search, when q is not blank, both hold.
Matching(status, q) ==
    {r \in DOMAIN requests :
        /\ status # None => requests[r].status = status[1]
        /\ (q # None /\ strip(q[1]) # << >>) =>
              \/ ilike(Some(requests[r].goal), strip(q[1]))
              \/ ilike(requests[r].notes, strip(q[1]))
              \/ ilike(Some(UserEmail[requests[r].user_id]), strip(q[1]))}

\* The ids of the items of a list response.
ItemIds(r) == {r.data[1].items[i].id : i \in 1..Len(r.data[1].items)}

\* C13 as claimed: a list answered 200 holds only requests that satisfy the
\* status filter and the search together, and all of them when skip and
\* limit are left out.  (The list is a read: the response in resp was
\* computed on the rows of the same state.)
C13_ListFiltersTogether ==
    (resp.op = "list_all_requests" /\ resp.code = 200) =>
        \A u \in Privileged, status \in ListStatuses, q \in ListSearches,
           skip \in ListSkips, limit \in ListLimits :
            resp = From("list_all_requests", ListRead(u, status, q, skip, limit)) =>
                /\ ItemIds(resp) \subseteq Matching(status, q)
                /\ (skip = None /\ limit = None) => ItemIds(resp) = Matching(status, q)

\* C14 as claimed: a list answered 200 carries as total the number of
\* requests that match the supplied filters, whatever skip and limit are,
\* and as items the part of the created_at-descending list of those
\* requests that starts after skip rows and has min(limit, total - skip)
\* rows (none when skip >= total), where limit is within 1..200 and is 25
\* when left out.
C14_ListTotalAndPage ==
    (resp.op = "list_all_requests" /\ resp.code = 200) =>
        \A u \in Privileged, status \in ListStatuses, q \in ListSearches,
           skip \in ListSkips, limit \in ListLimits :
            resp = From("list_all_requests", ListRead(u, status, q, skip, limit)) =>
                LET total == resp.data[1].total
                    items == resp.data[1].items
                    all   == OrderByCreatedAtDesc(Matching(status, q))
                    sk    == IF skip = None THEN 0 ELSE skip[1]
                    lim   == IF limit = None THEN 25 ELSE limit[1]
                IN  /\ total = Cardinality(Matching(status, q))
                    /\ lim \in 1..200
                    /\ sk >= 0
                    /\ Len(items) = IF sk >= total THEN 0
                                    ELSE IF lim < total - sk THEN lim ELSE total - sk
                    /\ \A i \in 1..Len(items) : items[i] = all[sk + i]

----------------------------------------------------------------------------
\* Properties of the interleaved runs (SpecTx).

\* C8 as claimed: the status write and the audit insert of cancel and of
\* update are all-or-nothing in the committed state.  A step that adds an
\* audit row adds exactly one, for a request that exists and whose status
\* is then the row's new_status; a step that changes the status of a
\* request adds such a row; and a call that ends in a failed commit (500)
\* leaves the requests and the audit rows as they were.
C8_StatusAndLogAtomic ==
    [][/\ logs' # logs =>
            /\ Len(logs') = Len(logs) + 1
            /\ SubSeq(logs', 1, Len(logs)) = logs
            /\ logs'[Len(logs')].request_id \in DOMAIN requests'
            /\ requests'[logs'[Len(logs')].request_id].status = logs'[Len(logs')].new_status
       /\ \A r \in DOMAIN requests \cap DOMAIN requests' :
            (requests'[r].user_id = requests[r].user_id
             /\ requests'[r].status # requests[r].status) =>
                /\ Len(logs') = Len(logs) + 1
                /\ logs'[Len(logs')].request_id = r
                /\ logs'[Len(logs')].new_status = requests'[r].status
       /\ (resp'.op \in {"cancel_my_request", "update_request_status"} /\ resp'.code = 500) =>
            (requests' = requests /\ logs' = logs)]_vars

\* C18 as claimed: a commit of cancel_my_request that writes its audit row
\* after an advisor or admin has written the request's newest audit row
\* finds the request neither in_review nor completed, and the old_status of
\* the row it writes is the status the request has just before the commit.
C18_CancelNeverOverwritesAdvisor ==
    [][\A s \in Sessions :
          (/\ tx[s].pc = "staged"
           /\ tx[s].op = "cancel"
           /\ tx'[s].pc = "idle"
           /\ Len(logs') = Len(logs) + 1
           /\ status_logs(tx[s].rid) # << >>
           /\ MostRecentLog(tx[s].rid).changed_by_user_id \in Privileged) =>
              /\ tx[s].rid \in DOMAIN requests
              /\ requests[tx[s].rid].status \notin {"in_review", "completed"}
              /\ logs'[Len(logs')].old_status = requests[tx[s].rid].status]_vars

====
